---- MODULE Spec2Model ----
(***************************************************************************)
(* PlatypusWrapper (pywr/optimisation/platypus.py): the bridge between a   *)
(* pywr model and a platypus Problem.  The module models the construction  *)
(* of the wrapper (count_constraints, _make_variables, _make_constraints)  *)
(* and the evaluate entry point, step by step, for one or two callers.     *)
(*                                                                         *)
(* Real numbers are fixed point: a solution entry v stands for v/10, so    *)
(* 36 is 3.6 and 25 is 2.5.  Values written as integer variables, bounds   *)
(* and aggregated readings are plain integers.                             *)
(***************************************************************************)
EXTENDS Integers, Sequences, FiniteSets, TLC

VARIABLES
    variables,      \* the model's decision variables: <<[double_size, integer_size]>>
    variable_map,   \* cumulative offsets, one more entry than variables
    objectives,     \* the model's objectives: <<"minimise" | "maximise">>
    constraints,    \* the model's constraints: <<[kind, lower, upper]>>
    ctor,           \* "new", "ok", or the exception __init__ raised
    problem,        \* self.problem: <<>> while unassigned, else <<Problem>>
    dbl,            \* model state: continuous values of each variable
    int,            \* model state: integer values of each variable
    sim,            \* model state left by the last run(): [owner, outcome]
    queue,          \* per caller: the solutions it still has to evaluate
    pc,             \* per caller: position inside evaluate
    local,          \* per caller: evaluate's local variables
    result,         \* per caller: <<>>, or <<r>> once evaluate returned r
    err,            \* per caller: the exception that left evaluate ("None")
    trace           \* per caller: the calls evaluate made on the model, in order

vars == <<variables, variable_map, objectives, constraints, ctor, problem,
          dbl, int, sim, queue, pc, local, result, err, trace>>

(***************************************************************************)
(* Bounds of the model.                                                    *)
(***************************************************************************)
MaxVars == 2
MaxSize == 2
MaxObjectives == 2
MaxConstraints == 2
MaxCalls == 2

Callers == {"a", "b"}
Outcomes == {-2, 0, 2}

(***************************************************************************)
(* Helpers on sequences.                                                   *)
(***************************************************************************)
Min(a, b) == IF a < b THEN a ELSE b

Max(a, b) == IF a > b THEN a ELSE b

SeqsUpTo(S, n) == UNION {[1..k -> S] : k \in 0..n}

\* Python's s[start:stop] for 0 <= start, 0 <= stop: indices are clamped to
\* len(s), and an empty range gives the empty sequence.  Entries keep their
\* 0-based position in s: <<position, value>>.
PySlice(s, start, stop) ==
    LET lo == Min(start, Len(s))
        hi == Min(stop, Len(s))
    IN  IF hi <= lo THEN <<>> ELSE [n \in 1..(hi - lo) |-> <<lo + n - 1, s[lo + n]>>]

\* x[:n] for n >= 0
PyHead(x, n) == SubSeq(x, 1, Min(n, Len(x)))

\* x[-n:] for n > 0
PyTail(x, n) == SubSeq(x, Max(Len(x) - n, 0) + 1, Len(x))

Values(x) == [n \in 1..Len(x) |-> x[n][2]]

Positions(x) == [n \in 1..Len(x) |-> x[n][1]]

\* np.round: round half to even, on a fixed-point value v (v/10).
NpRound(v) ==
    LET q == v \div 10
        r == v % 10
    IN  IF r < 5 THEN q
        ELSE IF r > 5 THEN q + 1
        ELSE IF q % 2 = 0 THEN q ELSE q + 1

(***************************************************************************)
(* The recorders' classification flags (pywr.recorders, not under src/).   *)
(***************************************************************************)
ConstraintKinds == {"none", "lower", "upper", "double", "equality"}

is_double_bounded_constraint(c) == c.kind = "double"

is_equality_constraint(c) == c.kind = "equality"

is_lower_bounded_constraint(c) == c.kind = "lower"

is_upper_bounded_constraint(c) == c.kind = "upper"

is_constraint(c) == c.kind # "none"

\* The k-th constraint of a model with its bounds: the k-th has lower bound
\* 10(k-1)+1 and upper bound 10(k-1)+5; an equality constraint has both bounds
\* equal; -1 stands for a bound that is not set (None).
Constraint(kind, k) ==
    [kind |-> kind,
     lower |-> IF kind \in {"lower", "double", "equality"} THEN 10 * (k - 1) + 1 ELSE -1,
     upper |-> IF kind \in {"upper", "double"} THEN 10 * (k - 1) + 5
               ELSE IF kind = "equality" THEN 10 * (k - 1) + 1 ELSE -1]

\* cache_variable_parameters: the variable map is the prefix sum of the sizes.
RECURSIVE CumulativeSizes(_, _)
CumulativeSizes(vs, n) ==
    IF n = 0 THEN 0
    ELSE CumulativeSizes(vs, n - 1) + vs[n].double_size + vs[n].integer_size

cache_variable_map(vs) == [n \in 1..(Len(vs) + 1) |-> CumulativeSizes(vs, n - 1)]

\* The model's aggregated readings after a run with the given outcome.
ObjectiveReading(outcome, k) == outcome * k

ConstraintReading(outcome, k) == outcome + k

(***************************************************************************)
(* count_constraints                                                       *)
(* Returns [error, count]: error is "ValueError" when a constraint has no   *)
(* bounds defined, and "None" otherwise.                                   *)
(***************************************************************************)
RECURSIVE CountFrom(_, _, _)
CountFrom(cs, n, count) ==
    IF n > Len(cs) THEN [error |-> "None", count |-> count]
    ELSE IF is_double_bounded_constraint(cs[n]) THEN CountFrom(cs, n + 1, count + 2)
    ELSE IF is_constraint(cs[n]) THEN CountFrom(cs, n + 1, count + 1)
    ELSE [error |-> "ValueError", count |-> count]

count_constraints(cs) == CountFrom(cs, 1, 0)

(***************************************************************************)
(* platypus.Problem(nvars, nobjs, nconstrs): fixed-length arrays of types  *)
(* and constraints, not yet set.                                           *)
(***************************************************************************)
Unset == [op |-> "unset", value |-> 0]

NoType == [type |-> "unset", var |-> 0, kind |-> "none", dim |-> 0]

Problem(nvars, nobjs, nconstrs) ==
    [nvars |-> nvars, nobjs |-> nobjs, nconstrs |-> nconstrs,
     types |-> [n \in 1..nvars |-> NoType],
     constraints |-> [n \in 1..nconstrs |-> Unset],
     function |-> "evaluate"]

PlatypusConstraint(op, value) == [op |-> op, value |-> value]

\* platypus.Real(lower[i], upper[i]) of the kind's bounds of variable var
Real(var, kind, i) == [type |-> "Real", var |-> var, kind |-> kind, dim |-> i]

(***************************************************************************)
(* _make_variables: one Real per continuous dimension, then one Real per   *)
(* integer dimension, variable by variable.  Returns problem.types.        *)
(***************************************************************************)
VarTypes(var, n) ==
    [i \in 1..(var.double_size + var.integer_size) |->
        IF i <= var.double_size THEN Real(n, "double", i - 1)
        ELSE Real(n, "integer", i - var.double_size - 1)]

RECURSIVE MakeVariablesFrom(_, _, _, _)
MakeVariablesFrom(vs, n, ix, types) ==
    IF n > Len(vs) THEN types
    ELSE LET new == VarTypes(vs[n], n)
         IN  MakeVariablesFrom(vs, n + 1, ix + Len(new),
                [i \in 1..Len(types) |->
                    IF i > ix /\ i <= ix + Len(new) THEN new[i - ix] ELSE types[i]])

make_variables(vs, types) == MakeVariablesFrom(vs, 1, 0, types)

(***************************************************************************)
(* _make_constraints.  Returns [error, constraints]: the exception raised  *)
(* ("None" when none) and problem.constraints as it was left.              *)
(***************************************************************************)
SetSlot(slots, ic, c) == [slots EXCEPT ![ic + 1] = c]

RECURSIVE MakeConstraintsFrom(_, _, _, _)
MakeConstraintsFrom(cs, n, ic, slots) ==
    IF n > Len(cs) THEN [error |-> "None", constraints |-> slots]
    ELSE LET c == cs[n] IN
         IF is_double_bounded_constraint(c) THEN
            IF ic + 2 > Len(slots) THEN [error |-> "IndexError", constraints |-> slots]
            ELSE MakeConstraintsFrom(cs, n + 1, ic + 2,
                    SetSlot(SetSlot(slots, ic, PlatypusConstraint(">=", c.lower)),
                            ic + 1, PlatypusConstraint("<=", c.upper)))
         ELSE IF ic + 1 > Len(slots) THEN [error |-> "IndexError", constraints |-> slots]
         ELSE IF is_equality_constraint(c) THEN
            MakeConstraintsFrom(cs, n + 1, ic + 1,
                    SetSlot(slots, ic, PlatypusConstraint("==", c.lower)))
         ELSE IF is_lower_bounded_constraint(c) THEN
            MakeConstraintsFrom(cs, n + 1, ic + 1,
                    SetSlot(slots, ic, PlatypusConstraint(">=", c.lower)))
         ELSE IF is_upper_bounded_constraint(c) THEN
            MakeConstraintsFrom(cs, n + 1, ic + 1,
                    SetSlot(slots, ic, PlatypusConstraint("<=", c.upper)))
         ELSE [error |-> "RuntimeError", constraints |-> slots]

\* Mutant: every slot is given the operator '>='.
make_constraints_all_ge(cs, slots) ==
    LET r == MakeConstraintsFrom(cs, 1, 0, slots)
    IN  [r EXCEPT !.constraints =
            [n \in 1..Len(r.constraints) |->
                IF r.constraints[n].op = "<=" THEN PlatypusConstraint(">=", r.constraints[n].value)
                ELSE r.constraints[n]]]

\* Mutant: the upper-bounded branch is missing.
make_constraints_no_upper(cs, slots) ==
    IF \E n \in 1..Len(cs) : cs[n].kind = "upper"
    THEN [error |-> "RuntimeError", constraints |-> slots]
    ELSE MakeConstraintsFrom(cs, 1, 0, slots)

make_constraints(cs, slots) == MakeConstraintsFrom(cs, 1, 0, slots)

(***************************************************************************)
(* PlatypusWrapper.__init__.  Returns [ctor, problem]: the exception that  *)
(* left the constructor ("ok" when none) and self.problem, <<>> while it   *)
(* is not assigned and <<p>> once it is.                                   *)
(***************************************************************************)
\* Lines 45-51: the Problem is built and attached, then set up.
BuildProblem(vs, vmap, objs, cs) ==
    LET p0 == Problem(vmap[Len(vmap)], Len(objs), count_constraints(cs).count)
        p1 == [p0 EXCEPT !.types = make_variables(vs, p0.types)]
        mc == make_constraints(cs, p1.constraints)
    IN  [ctor |-> IF mc.error = "None" THEN "ok" ELSE mc.error,
         problem |-> <<[p1 EXCEPT !.constraints = mc.constraints]>>]

\* Mutant: the check of the objectives is missing.
wrapper_init_no_objective_check(vs, vmap, objs, cs) ==
    IF Len(vs) < 1 THEN [ctor |-> "ValueError: variable", problem |-> <<>>]
    ELSE IF count_constraints(cs).error # "None"
         THEN [ctor |-> "ValueError: constraint", problem |-> <<>>]
    ELSE BuildProblem(vs, vmap, objs, cs)

wrapper_init(vs, vmap, objs, cs) ==
    IF Len(vs) < 1 THEN [ctor |-> "ValueError: variable", problem |-> <<>>]
    ELSE IF Len(objs) < 1 THEN [ctor |-> "ValueError: objective", problem |-> <<>>]
    ELSE IF count_constraints(cs).error # "None"
         THEN [ctor |-> "ValueError: constraint", problem |-> <<>>]
    ELSE BuildProblem(vs, vmap, objs, cs)

Construct ==
    /\ ctor = "new"
    /\ LET w == wrapper_init(variables, variable_map, objectives, constraints)
       IN  /\ ctor' = w.ctor
           /\ problem' = w.problem
    /\ UNCHANGED <<variables, variable_map, objectives, constraints,
                   dbl, int, sim, queue, pc, local, result, err, trace>>

(***************************************************************************)
(* evaluate, one step per loop iteration and per call on the model.        *)
(***************************************************************************)
Event(op, n, values, src) == [op |-> op, n |-> n, values |-> values, src |-> src]

NoLocal == [solution |-> <<>>, ivar |-> 0, objectives |-> <<>>, constraints |-> <<>>,
            ic |-> 0, seen |-> <<>>]

AfterObjectives == IF Len(constraints) > 0 THEN "constraints" ELSE "return"

AfterRun == IF Len(objectives) > 0 THEN "objectives" ELSE AfterObjectives

\* Mutant: the decode loop is left after its first iteration.
AfterDecodeEarly(i) == "run"

AfterDecode(i) == IF i >= Len(variables) THEN "run" ELSE "decode"

\* A caller enters evaluate(solution) with the next solution of its queue.
Call(t) ==
    /\ ctor = "ok"
    /\ pc[t] \in {"idle", "done"}
    /\ queue[t] # <<>>
    /\ queue' = [queue EXCEPT ![t] = Tail(@)]
    /\ local' = [local EXCEPT ![t] = [NoLocal EXCEPT !.solution = Head(queue[t]), !.ivar = 1]]
    /\ pc' = [pc EXCEPT ![t] = AfterDecode(0)]
    /\ result' = [result EXCEPT ![t] = <<>>]
    /\ err' = [err EXCEPT ![t] = "None"]
    /\ trace' = [trace EXCEPT ![t] = <<>>]
    /\ UNCHANGED <<variables, variable_map, objectives, constraints, ctor, problem,
                   dbl, int, sim>>

\* x = np.array(solution[j]), j = slice(variable_map[ivar], variable_map[ivar+1])
SliceOf(solution, vmap, i) == PySlice(solution, vmap[i], vmap[i + 1])

\* Mutant: the assertion is missing.
AssertSliceOff(x, var) == TRUE

\* assert len(x) == var.double_size + var.integer_size
AssertSlice(x, var) == Len(x) = var.double_size + var.integer_size

\* x[:var.double_size]
DoublePart(x, var) == PyHead(x, var.double_size)

\* x[-var.integer_size:]
IntegerPart(x, var) == PyTail(x, var.integer_size)

\* Mutant: astype(np.int32) without np.round truncates towards zero.
Truncate(v) == IF v >= 0 THEN v \div 10 ELSE 0 - ((0 - v) \div 10)

\* np.round(...).astype(np.int32); the values of the model stay far inside int32
RoundToInt(v) == NpRound(v)

WritesDouble(var) == var.double_size > 0

\* Mutant: the integer values are never written.
WritesIntegerNever(var) == FALSE

WritesInteger(var) == var.integer_size > 0

\* The calls one iteration of the decode loop makes on variable i.
DecodeEvents(i, x, var) ==
    (IF WritesDouble(var)
     THEN <<Event("set_double_variables", i, Values(DoublePart(x, var)),
                  Positions(DoublePart(x, var)))>>
     ELSE <<>>)
    \o
    (IF WritesInteger(var)
     THEN <<Event("set_integer_variables", i,
                  [m \in 1..Len(IntegerPart(x, var)) |-> RoundToInt(IntegerPart(x, var)[m][2])],
                  Positions(IntegerPart(x, var)))>>
     ELSE <<>>)

RECURSIVE Apply(_, _, _)
Apply(events, op, old) ==
    IF events = <<>> THEN old
    ELSE Apply(Tail(events), op,
               IF Head(events).op = op
               THEN [old EXCEPT ![Head(events).n] = Head(events).values] ELSE old)

DecodeVar(t) ==
    /\ pc[t] = "decode"
    /\ LET i == local[t].ivar
           var == variables[i]
           x == SliceOf(local[t].solution, variable_map, i)
       IN  IF ~AssertSlice(x, var)
           THEN /\ pc' = [pc EXCEPT ![t] = "raised"]
                /\ err' = [err EXCEPT ![t] = "AssertionError"]
                /\ UNCHANGED <<dbl, int, local, trace>>
           ELSE /\ dbl' = Apply(DecodeEvents(i, x, var), "set_double_variables", dbl)
                /\ int' = Apply(DecodeEvents(i, x, var), "set_integer_variables", int)
                /\ trace' = [trace EXCEPT ![t] = @ \o DecodeEvents(i, x, var)]
                /\ local' = [local EXCEPT ![t].ivar = i + 1]
                /\ pc' = [pc EXCEPT ![t] = AfterDecode(i)]
                /\ err' = err
    /\ UNCHANGED <<variables, variable_map, objectives, constraints, ctor, problem,
                   sim, queue, result>>

\* run_stats = self.model.run(), returning: the run reads the variables as they
\* are now and leaves its outcome in the model.
RunOk(t) ==
    /\ pc[t] = "run"
    /\ \E outcome \in Outcomes :
          sim' = [owner |-> t, outcome |-> outcome]
    /\ local' = [local EXCEPT ![t].seen = <<[dbl |-> dbl, int |-> int]>>]
    /\ trace' = [trace EXCEPT ![t] = Append(@, Event("run", 0, <<>>, <<>>))]
    /\ pc' = [pc EXCEPT ![t] = AfterRun]
    /\ UNCHANGED <<variables, variable_map, objectives, constraints, ctor, problem,
                   dbl, int, queue, result, err>>

\* Mutant: the failure of run() is caught and the evaluation goes on.
RunRaisesSwallowed(t) ==
    /\ pc[t] = "run"
    /\ trace' = [trace EXCEPT ![t] = Append(@, Event("run", 0, <<>>, <<>>))]
    /\ pc' = [pc EXCEPT ![t] = AfterRun]
    /\ err' = [err EXCEPT ![t] = "ModelRunError"]
    /\ UNCHANGED <<variables, variable_map, objectives, constraints, ctor, problem,
                   dbl, int, sim, queue, local, result>>

\* self.model.run() raising: nothing in evaluate catches it.
RunRaises(t) ==
    /\ pc[t] = "run"
    /\ trace' = [trace EXCEPT ![t] = Append(@, Event("run", 0, <<>>, <<>>))]
    /\ pc' = [pc EXCEPT ![t] = "raised"]
    /\ err' = [err EXCEPT ![t] = "ModelRunError"]
    /\ UNCHANGED <<variables, variable_map, objectives, constraints, ctor, problem,
                   dbl, int, sim, queue, local, result>>

\* Mutant: the sign is never flipped.
SignAlwaysPlus(direction) == 1

\* sign = 1.0 if r.is_objective == 'minimise' else -1.0
Sign(direction) == IF direction = "minimise" THEN 1 ELSE -1

\* One iteration of the loop over self.model_objectives.
ReadObjective(t) ==
    /\ pc[t] = "objectives"
    /\ LET k == Len(local[t].objectives) + 1
           value == ObjectiveReading(sim.outcome, k)
       IN  /\ local' = [local EXCEPT ![t].objectives = Append(@, Sign(objectives[k]) * value)]
           /\ trace' = [trace EXCEPT ![t] =
                           Append(@, Event("objective", k, <<value>>, <<sim.owner>>))]
           /\ pc' = [pc EXCEPT ![t] = IF k >= Len(objectives) THEN AfterObjectives
                                      ELSE "objectives"]
    /\ UNCHANGED <<variables, variable_map, objectives, constraints, ctor, problem,
                   dbl, int, sim, queue, result, err>>

\* Mutant: a double bounded recorder contributes one value.
ConstraintValuesOnce(c, x) == <<x>>

\* constraints.extend([x, x]) for a double bounded recorder, else append(x)
ConstraintValues(c, x) == IF is_double_bounded_constraint(c) THEN <<x, x>> ELSE <<x>>

\* One iteration of the loop over self.model_constraints.
ReadConstraint(t) ==
    /\ pc[t] = "constraints"
    /\ LET k == local[t].ic + 1
           x == ConstraintReading(sim.outcome, k)
       IN  /\ local' = [local EXCEPT ![t].constraints = @ \o ConstraintValues(constraints[k], x),
                                     ![t].ic = k]
           /\ trace' = [trace EXCEPT ![t] =
                           Append(@, Event("constraint", k, <<x>>, <<sim.owner>>))]
           /\ pc' = [pc EXCEPT ![t] = IF k >= Len(constraints) THEN "return"
                                      ELSE "constraints"]
    /\ UNCHANGED <<variables, variable_map, objectives, constraints, ctor, problem,
                   dbl, int, sim, queue, result, err>>

\* return objectives, constraints if len(constraints) > 0 else objectives
ReturnValue(objs, cons) ==
    IF Len(cons) > 0
    THEN [pair |-> TRUE, objectives |-> objs, constraints |-> cons]
    ELSE [pair |-> FALSE, objectives |-> objs, constraints |-> <<>>]

Return(t) ==
    /\ pc[t] = "return"
    /\ result' = [result EXCEPT ![t] = <<ReturnValue(local[t].objectives, local[t].constraints)>>]
    /\ trace' = [trace EXCEPT ![t] = Append(@, Event("return", 0, <<>>, <<>>))]
    /\ pc' = [pc EXCEPT ![t] = "done"]
    /\ UNCHANGED <<variables, variable_map, objectives, constraints, ctor, problem,
                   dbl, int, sim, queue, local, err>>

(***************************************************************************)
(* Inputs: the models a wrapper is built on and the solutions evaluated.   *)
(***************************************************************************)
Var(ds, is) == [double_size |-> ds, integer_size |-> is]

\* Every variable of a model has at least one dimension.
VarShapes(maxSize) ==
    {v \in {Var(ds, is) : ds \in 0..maxSize, is \in 0..maxSize} :
        v.double_size + v.integer_size >= 1}

VarLists(minLen, maxLen, maxSize) ==
    UNION {[1..n -> VarShapes(maxSize)] : n \in minLen..maxLen}

Directions == {"minimise", "maximise"}

ObjectiveLists(minLen, maxLen) == UNION {[1..n -> Directions] : n \in minLen..maxLen}

ConstraintLists(kinds, maxLen) ==
    {[k \in 1..Len(f) |-> Constraint(f[k], k)] : f \in UNION {[1..n -> kinds] : n \in 0..maxLen}}

\* Entry i of the solutions of family p: 3.6, 2.5, -1.5, 0.4, 13.6, ... for
\* p = 1 and 8.6, 7.5, 3.5, 5.4, 18.6, ... for p = 2: all entries differ.
Pattern(p, i) ==
    <<36, 25, -15, 4>>[((i - 1) % 4) + 1] + 100 * ((i - 1) \div 4) + 50 * (p - 1)

Solution(p, n) == [i \in 1..n |-> Pattern(p, i)]

Total(vs) == cache_variable_map(vs)[Len(vs) + 1]

\* Solutions of the declared length, and one entry shorter or longer, or empty.
Solutions(vs) == {Solution(p, n) : p \in 1..2, n \in 0..(Total(vs) + 1)}

ExactSolutions(vs) == {Solution(p, Total(vs)) : p \in 1..2}

InitWith(vs, objs, cs, q) ==
    /\ variables = vs
    /\ variable_map = cache_variable_map(vs)
    /\ objectives = objs
    /\ constraints = cs
    /\ ctor = "new"
    /\ problem = <<>>
    /\ dbl = [i \in 1..Len(vs) |-> [m \in 1..vs[i].double_size |-> 0]]
    /\ int = [i \in 1..Len(vs) |-> [m \in 1..vs[i].integer_size |-> 0]]
    /\ sim = [owner |-> "none", outcome |-> 0]
    /\ queue = q
    /\ pc = [t \in Callers |-> "idle"]
    /\ local = [t \in Callers |-> NoLocal]
    /\ result = [t \in Callers |-> <<>>]
    /\ err = [t \in Callers |-> "None"]
    /\ trace = [t \in Callers |-> <<>>]

\* Any objectives and constraints, on a model of at most two variables, one
\* caller evaluating one solution of any length.
Init ==
    \E vs \in {<<>>, <<Var(1, 0)>>, <<Var(0, 1)>>, <<Var(1, 1)>>, <<Var(1, 1), Var(1, 0)>>},
       objs \in ObjectiveLists(0, MaxObjectives),
       cs \in ConstraintLists(ConstraintKinds, MaxConstraints) :
       \E s \in Solutions(vs) :
          InitWith(vs, objs, cs, [t \in Callers |-> IF t = "a" THEN <<s>> ELSE <<>>])

Next ==
    \/ Construct
    \/ \E t \in Callers : Call(t)
    \/ \E t \in Callers : DecodeVar(t)
    \/ \E t \in Callers : RunOk(t)
    \/ \E t \in Callers : RunRaises(t)
    \/ \E t \in Callers : ReadObjective(t)
    \/ \E t \in Callers : ReadConstraint(t)
    \/ \E t \in Callers : Return(t)

Spec == Init /\ [][Next]_vars

\* Any variables, one objective and one double-bounded constraint, one
\* caller evaluating one solution of any length.
InitDecode ==
    \E vs \in VarLists(1, MaxVars, MaxSize) :
       \E s \in Solutions(vs) :
          InitWith(vs, <<"maximise">>, <<Constraint("double", 1)>>,
                   [t \in Callers |-> IF t = "a" THEN <<s>> ELSE <<>>])

SpecDecode == InitDecode /\ [][Next]_vars

\* MaxCalls solutions of the declared length, of family 1 and family 2 in
\* turn: either one caller evaluates them one after another, or a second
\* caller evaluates the last of them.
InitCallers ==
    \E vs \in VarLists(1, MaxVars, 1),
       split \in {0, 1} :
       LET ss == [k \in 1..MaxCalls |-> Solution(((k - 1) % 2) + 1, Total(vs))]
       IN  InitWith(vs, <<"maximise">>, <<Constraint("double", 1)>>,
                   [t \in Callers |-> IF t = "a" THEN SubSeq(ss, 1, MaxCalls - split)
                                      ELSE SubSeq(ss, MaxCalls - split + 1, MaxCalls)])

SpecCallers == InitCallers /\ [][Next]_vars

(***************************************************************************)
(* What the claims speak of, stated from the constraint and variable       *)
(* declarations alone.                                                     *)
(***************************************************************************)
SlotWidth(c) == IF c.kind = "double" THEN 2 ELSE 1

RECURSIVE SlotsBefore(_, _)
SlotsBefore(cs, k) == IF k <= 1 THEN 0 ELSE SlotsBefore(cs, k - 1) + SlotWidth(cs[k - 1])

ExpectedSlotCount(cs) == SlotsBefore(cs, Len(cs) + 1)

OwnerOfSlot(cs, n) ==
    CHOOSE k \in 1..Len(cs) : SlotsBefore(cs, k) < n /\ n <= SlotsBefore(cs, k + 1)

ExpectedSlot(cs, n) ==
    LET k == OwnerOfSlot(cs, n)
        c == cs[k]
        first == (n = SlotsBefore(cs, k) + 1)
    IN  CASE c.kind = "double" /\ first -> [op |-> ">=", value |-> c.lower]
          [] c.kind = "double" /\ ~first -> [op |-> "<=", value |-> c.upper]
          [] c.kind = "equality" -> [op |-> "==", value |-> c.lower]
          [] c.kind = "lower" -> [op |-> ">=", value |-> c.lower]
          [] OTHER -> [op |-> "<=", value |-> c.upper]

ExpectedSlots(cs) == [n \in 1..ExpectedSlotCount(cs) |-> ExpectedSlot(cs, n)]

EventsOf(t, op) == {n \in 1..Len(trace[t]) : trace[t][n].op = op}

\* The value the k-th recorder of the kind gave to caller t.
TraceValue(t, op, k) ==
    LET n == CHOOSE n \in EventsOf(t, op) : trace[t][n].n = k
    IN  trace[t][n].values[1]

Returned(t) == result[t] # <<>>

(***************************************************************************)
(* C1: once the wrapper is constructed, the slot count given to the        *)
(* Problem (2 per double-bounded constraint, 1 per other), the number of   *)
(* slot descriptors _make_constraints wrote and the number of constraint   *)
(* values of every evaluation are equal; evaluate returns the objectives   *)
(* alone exactly when the count is 0; a double-bounded constraint owns two *)
(* adjacent slots and both values are its one aggregated reading.          *)
(***************************************************************************)
C1_SlotCountsAgree ==
    ctor = "ok" =>
        LET p == problem[1]
            n == ExpectedSlotCount(constraints)
        IN  /\ p.nconstrs = n
            /\ Len(p.constraints) = n
            /\ \A i \in 1..n : p.constraints[i] # Unset
            /\ \A k \in 1..Len(constraints) :
                  constraints[k].kind = "double" =>
                     LET s == SlotsBefore(constraints, k) + 1
                     IN  /\ s + 1 <= n
                         /\ p.constraints[s].value = constraints[k].lower
                         /\ p.constraints[s + 1].value = constraints[k].upper
            /\ \A t \in Callers :
                  Returned(t) =>
                     LET r == result[t][1]
                     IN  /\ Len(r.constraints) = n
                         /\ r.pair <=> (n > 0)
                         /\ \A k \in 1..Len(constraints) :
                               constraints[k].kind = "double" =>
                                  LET s == SlotsBefore(constraints, k) + 1
                                  IN  /\ r.constraints[s] = TraceValue(t, "constraint", k)
                                      /\ r.constraints[s + 1] = TraceValue(t, "constraint", k)
                                      /\ Cardinality({e \in EventsOf(t, "constraint") :
                                                         trace[t][e].n = k}) = 1

C1_Witness ==
    /\ ctor = "ok"
    /\ Returned("a")
    /\ Len(constraints) = 2
    /\ constraints[1].kind = "lower"
    /\ constraints[2].kind = "double"
    /\ Len(result["a"][1].constraints) = 3

(***************************************************************************)
(* C3: the objectives evaluate returns have one entry per objective, in    *)
(* the objectives' order; entry k is the aggregated reading v of objective *)
(* k when its direction is 'minimise' and -v when it is 'maximise'.        *)
(***************************************************************************)
C3_ObjectiveSigns ==
    \A t \in Callers :
        Returned(t) =>
            LET objs == result[t][1].objectives
            IN  /\ Len(objs) = Len(objectives)
                /\ Cardinality(EventsOf(t, "objective")) = Len(objectives)
                /\ \A k \in 1..Len(objectives) :
                      LET v == TraceValue(t, "objective", k)
                      IN  /\ v = ObjectiveReading(sim.outcome, k)
                          /\ objectives[k] = "minimise" => objs[k] = v
                          /\ objectives[k] = "maximise" => objs[k] = 0 - v

C3_Witness ==
    /\ Returned("a")
    /\ objectives = <<"maximise", "minimise">>
    /\ sim.outcome = 2
    /\ result["a"][1].objectives = <<-2, 4>>

(***************************************************************************)
(* C4: _make_constraints gives the constraints, in their order, the        *)
(* consecutive slots from 0 on with no gap: '>=' lower then '<=' upper for *)
(* a double-bounded constraint, '==' lower for an equality, '>=' lower for *)
(* a lower-bounded and '<=' upper for an upper-bounded constraint.         *)
(***************************************************************************)
C4_SlotDescription ==
    ctor = "ok" => problem[1].constraints = ExpectedSlots(constraints)

C4_Witness ==
    /\ ctor = "ok"
    /\ Len(constraints) = 2
    /\ constraints[1].kind = "double"
    /\ constraints[2].kind = "upper"
    /\ problem[1].constraints =
          <<[op |-> ">=", value |-> 1], [op |-> "<=", value |-> 5], [op |-> "<=", value |-> 15]>>

(***************************************************************************)
(* C7: construction fails with a ValueError when the model has no          *)
(* variable, no objective, or a constraint that is neither double-bounded  *)
(* nor a constraint; then no Problem is attached to the wrapper (so no     *)
(* variable type and no constraint slot is set up) and nothing is          *)
(* evaluated.                                                              *)
(***************************************************************************)
ValueErrors == {"ValueError: variable", "ValueError: objective", "ValueError: constraint"}

NoBounds(c) == c.kind = "none"

C7_ConstructionFails ==
    /\ (ctor # "new" /\ Len(variables) = 0) => ctor \in ValueErrors
    /\ (ctor # "new" /\ Len(objectives) = 0) => ctor \in ValueErrors
    /\ (ctor # "new" /\ \E k \in 1..Len(constraints) : NoBounds(constraints[k]))
          => ctor \in ValueErrors
    /\ ctor \in ValueErrors =>
          /\ problem = <<>>
          /\ \A t \in Callers : pc[t] = "idle" /\ trace[t] = <<>>

C7_Witness ==
    /\ ctor = "ValueError: constraint"
    /\ Len(variables) > 0
    /\ Len(objectives) > 0
    /\ Len(constraints) = 2
    /\ constraints[1].kind = "double"
    /\ constraints[2].kind = "none"

Rank(op) ==
    CASE op \in {"set_double_variables", "set_integer_variables"} -> 1
      [] op = "run" -> 2
      [] op = "objective" -> 3
      [] op = "constraint" -> 4
      [] OTHER -> 5

WritesOf(t, op, i) == {n \in EventsOf(t, op) : trace[t][n].n = i}

AllWritten(t) ==
    \A i \in 1..Len(variables) :
        /\ variables[i].double_size > 0 =>
              Cardinality(WritesOf(t, "set_double_variables", i)) = 1
        /\ variables[i].integer_size > 0 =>
              Cardinality(WritesOf(t, "set_integer_variables", i)) = 1

C8_RunFailurePropagates ==
    \A t \in Callers :
        err[t] = "ModelRunError" =>
            /\ pc[t] = "raised"
            /\ ~Returned(t)
            /\ Cardinality(EventsOf(t, "run")) = 1
            /\ EventsOf(t, "objective") = {}
            /\ EventsOf(t, "constraint") = {}
            /\ trace[t][Len(trace[t])].op = "run"

C8_Witness ==
    /\ err["a"] = "ModelRunError"
    /\ pc["a"] = "raised"
    /\ Len(variables) = 2
    /\ Len(constraints) > 0

(***************************************************************************)
(* The slices of a solution, from the variables' sizes alone.              *)
(***************************************************************************)
RECURSIVE Offset(_, _)
Offset(vs, i) ==
    IF i <= 1 THEN 0
    ELSE Offset(vs, i - 1) + vs[i - 1].double_size + vs[i - 1].integer_size

DeclaredLength(vs) == Offset(vs, Len(vs) + 1)

SizeOf(var) == var.double_size + var.integer_size

\* n is an integer nearest to the fixed-point value v
Nearest(n, v) == 10 * n - v <= 5 /\ v - 10 * n <= 5

ExpectedDoubles(sol, i) ==
    [m \in 1..variables[i].double_size |-> sol[Offset(variables, i) + m]]

IsExpectedIntegers(ints, sol, i) ==
    /\ Len(ints) = variables[i].integer_size
    /\ \A m \in 1..variables[i].integer_size :
          LET v == sol[Offset(variables, i) + variables[i].double_size + m]
          IN  /\ Nearest(ints[m], v)
              /\ v = 36 => ints[m] = 4

WriteEvents(t) == EventsOf(t, "set_double_variables") \cup EventsOf(t, "set_integer_variables")

(***************************************************************************)
(* C2: with the variable map the prefix sum of the sizes and a solution of *)
(* the declared length, decode gives variable i, in order, the slice       *)
(* [offset[i], offset[i+1]): its first double_size entries unchanged as    *)
(* continuous values, the other integer_size entries rounded to a nearest  *)
(* integer as integer values (3.6 is written as 4); there is no continuous *)
(* write when double_size is 0 and no integer write when integer_size is   *)
(* 0, and no solution entry is written to two variable dimensions.         *)
(***************************************************************************)
C2_Decode ==
    \A t \in Callers :
        (/\ pc[t] # "idle"
         /\ variable_map = [n \in 1..(Len(variables) + 1) |-> Offset(variables, n)]
         /\ Len(local[t].solution) = DeclaredLength(variables)) =>
            LET sol == local[t].solution
                tr == trace[t]
            IN  /\ pc[t] # "decode" => local[t].ivar = Len(variables) + 1
                /\ err[t] # "AssertionError"
                /\ \A i \in 1..(local[t].ivar - 1) :
                      /\ Cardinality(WritesOf(t, "set_double_variables", i))
                            = IF variables[i].double_size > 0 THEN 1 ELSE 0
                      /\ Cardinality(WritesOf(t, "set_integer_variables", i))
                            = IF variables[i].integer_size > 0 THEN 1 ELSE 0
                      /\ \A e \in WritesOf(t, "set_double_variables", i) :
                            /\ tr[e].values = ExpectedDoubles(sol, i)
                            /\ tr[e].src = [m \in 1..variables[i].double_size |->
                                               Offset(variables, i) + m - 1]
                      /\ \A e \in WritesOf(t, "set_integer_variables", i) :
                            /\ IsExpectedIntegers(tr[e].values, sol, i)
                            /\ tr[e].src = [m \in 1..variables[i].integer_size |->
                                               Offset(variables, i) + variables[i].double_size
                                                  + m - 1]
                      /\ variables[i].double_size > 0 => dbl[i] = ExpectedDoubles(sol, i)
                      /\ variables[i].integer_size > 0 => IsExpectedIntegers(int[i], sol, i)
                /\ \A e \in WriteEvents(t) : tr[e].n < local[t].ivar
                /\ \A e, f \in WriteEvents(t) :
                      /\ e < f => tr[e].n <= tr[f].n
                      /\ (e < f /\ tr[e].n = tr[f].n) => tr[e].op = "set_double_variables"
                      /\ \A m \in 1..Len(tr[e].src), k \in 1..Len(tr[f].src) :
                            tr[e].src[m] = tr[f].src[k] => (e = f /\ m = k)

C2_Witness ==
    /\ Returned("a")
    /\ variables = <<Var(0, 1), Var(2, 1)>>
    /\ local["a"].solution = <<36, 25, -15, 4>>
    /\ dbl = << <<>>, <<25, -15>> >>
    /\ int = << <<4>>, <<0>> >>

(***************************************************************************)
(* C10.  The slice of variable i of a solution of length L has             *)
(* min(offset[i+1], L) - min(offset[i], L) entries.                        *)
(***************************************************************************)
SliceLength(vs, L, i) == Min(Offset(vs, i + 1), L) - Min(Offset(vs, i), L)

Mismatches(vs, L) == {i \in 1..Len(vs) : SliceLength(vs, L, i) # SizeOf(vs[i])}

FirstMismatch(vs, L) == CHOOSE i \in Mismatches(vs, L) : \A j \in Mismatches(vs, L) : i <= j

(***************************************************************************)
(* C10 as claimed: whenever the solution is shorter or longer than the     *)
(* declared length, evaluate aborts with an assertion failure: run() is    *)
(* not called and nothing is returned.                                     *)
(***************************************************************************)
C10_WrongLengthAborts ==
    \A t \in Callers :
        (pc[t] # "idle" /\ Len(local[t].solution) # DeclaredLength(variables)) =>
            /\ pc[t] \in {"decode", "raised"}
            /\ pc[t] = "raised" => err[t] = "AssertionError"
            /\ EventsOf(t, "run") = {}
            /\ ~Returned(t)

(***************************************************************************)
(* C10 amended: the slice of some variable has not exactly double_size +   *)
(* integer_size entries exactly when the solution is shorter than the      *)
(* declared length; then evaluate aborts with an assertion failure at the  *)
(* first such variable: run() is not called, nothing is returned, the      *)
(* variables before it have been written from their whole slices and no    *)
(* variable is written from a truncated or padded slice.  A solution       *)
(* longer than the declared length fails no assertion.                     *)
(***************************************************************************)
C10_ShortSolutionAborts ==
    \A t \in Callers :
        pc[t] # "idle" =>
            LET L == Len(local[t].solution)
                bad == Mismatches(variables, L)
            IN  /\ bad # {} <=> L < DeclaredLength(variables)
                /\ bad = {} => err[t] # "AssertionError"
                /\ bad # {} =>
                      LET first == FirstMismatch(variables, L)
                      IN  /\ pc[t] \in {"decode", "raised"}
                          /\ local[t].ivar <= first
                          /\ pc[t] = "raised" =>
                                (err[t] = "AssertionError" /\ local[t].ivar = first)
                          /\ EventsOf(t, "run") = {}
                          /\ ~Returned(t)
                          /\ \A e \in WriteEvents(t) :
                                /\ trace[t][e].n < first
                                /\ Len(trace[t][e].values) =
                                      IF trace[t][e].op = "set_double_variables"
                                      THEN variables[trace[t][e].n].double_size
                                      ELSE variables[trace[t][e].n].integer_size
                          /\ \A i \in 1..(local[t].ivar - 1) :
                                /\ variables[i].double_size > 0 =>
                                      dbl[i] = ExpectedDoubles(local[t].solution, i)
                                /\ variables[i].integer_size > 0 =>
                                      IsExpectedIntegers(int[i], local[t].solution, i)

C10_Witness ==
    /\ pc["a"] = "raised"
    /\ err["a"] = "AssertionError"
    /\ variables = <<Var(1, 1), Var(2, 0)>>
    /\ Len(local["a"].solution) = 3
    /\ local["a"].ivar = 2
    /\ Len(trace["a"]) = 2

(***************************************************************************)
(* C6 as claimed: the run of each evaluation sees only the variable values *)
(* of its own solution, and the readings it returns are those of its own   *)
(* run (which is what one evaluation completing before the other's decode  *)
(* begins would give).                                                     *)
(***************************************************************************)
OwnRun(t) ==
    /\ local[t].seen # <<>> =>
          \A i \in 1..Len(variables) :
              /\ local[t].seen[1].dbl[i] = ExpectedDoubles(local[t].solution, i)
              /\ IsExpectedIntegers(local[t].seen[1].int[i], local[t].solution, i)
    /\ \A e \in EventsOf(t, "objective") \cup EventsOf(t, "constraint") :
          trace[t][e].src = <<t>>

C6_EachRunSeesOwnSolution == \A t \in Callers : OwnRun(t)

(***************************************************************************)
(* C6 amended: when evaluate is only ever called by one caller, one call   *)
(* after the other, each evaluation's decode, run and read-back complete   *)
(* before the next decode begins, the run of each evaluation sees only the *)
(* variable values of its own solution and the readings it returns are     *)
(* those of its own run.  (evaluate takes no lock: two callers on one      *)
(* wrapper interleave.)                                                    *)
(***************************************************************************)
Active(t) == pc[t] \in {"decode", "run", "objectives", "constraints", "return"}

NeverCalled(t) == pc[t] = "idle" /\ queue[t] = <<>>

C6_SingleCallerSeesOwnSolution ==
    \A t \in Callers :
        (\A u \in Callers \ {t} : NeverCalled(u)) =>
            /\ OwnRun(t)
            /\ \A u \in Callers \ {t} : ~Active(u)

C6_Witness ==
    /\ NeverCalled("b")
    /\ pc["a"] = "done"
    /\ queue["a"] = <<>>
    /\ variables = <<Var(1, 1), Var(0, 1)>>
    /\ local["a"].solution = Solution(2, 3)
    /\ local["a"].seen = <<[dbl |-> << <<86>>, <<>> >>, int |-> << <<8>>, <<4>> >>]>>

====
